---- MODULE Spec2Model ----
(***************************************************************************)
(* Model of backend/pubsub-to-firebase/functions/main.py: the T1000 frame  *)
(* decoder (decode_t1000_hex) and the Pub/Sub ingestion handler            *)
(* (pubsub_to_rtdb) writing to the Firebase Realtime Database.             *)
(*                                                                         *)
(* Representation of Python values:                                        *)
(*  - a str is a sequence of one-character strings (<<"a", "/", "b">>);    *)
(*  - an optional value (dict.get / getattr with default None) is a record *)
(*    [some, val]; None is [some |-> FALSE, val |-> <<>>];                  *)
(*  - bytes are sequences of integers 0..255, read with 0-based offsets    *)
(*    through B(b, i);                                                     *)
(*  - a dict is a TLA+ function whose DOMAIN is the set of keys present.   *)
(***************************************************************************)
EXTENDS Integers, Sequences, FiniteSets, TLC

(* ------------------------------------------------------------------ *)
(* Bounds of the model                                                 *)
(* ------------------------------------------------------------------ *)
\* number of invocations of pubsub_to_rtdb in one run of the sequential specifications
MaxCalls == 3
\* largest value of the store's server clock
MaxClock == 1
\* number of invocations in one run of the specifications with concurrent workers
MaxConcCalls == 2
\* number of invocations in one run of the specification with failing store writes
MaxFaultCalls == 2
\* the longest identifier _safe_key is called with, the example aside
MaxIdLen == 3
\* bytes of padding after offset 34 in the longest frame the decoder is called with
MaxPad == 1

(* ------------------------------------------------------------------ *)
(* Python values                                                       *)
(* ------------------------------------------------------------------ *)
None == [some |-> FALSE, val |-> <<>>]
Some(s) == [some |-> TRUE, val |-> s]
\* truthiness of an optional str: None and "" are falsy
Truthy(v) == v.some /\ v.val # <<>>
\* Python `a or b`
Or(a, b) == IF Truthy(a) THEN a ELSE b
\* str(x): str(None) is "None"
Str(v) == IF v.some THEN v.val ELSE <<"N", "o", "n", "e">>
\* dict.get(k) on a dict modelled as a function
Has(d, k) == k \in DOMAIN d
\* the empty dict
EmptyDict == <<>>

(* ------------------------------------------------------------------ *)
(* _safe_key                                                           *)
(* ------------------------------------------------------------------ *)
\* a mutant: the brackets are not taken for reserved
_ILLEGAL_NoBrackets == {".", "#", "$", "/"}
_ILLEGAL == {".", "#", "$", "/", "[", "]"}

_safe_key(s) == [i \in 1..Len(s) |-> IF s[i] \in _ILLEGAL THEN "_" ELSE s[i]]

(* ------------------------------------------------------------------ *)
(* Frame decoder                                                       *)
(* ------------------------------------------------------------------ *)
HexDigits == <<"0", "1", "2", "3", "4", "5", "6", "7", "8", "9", "a", "b", "c", "d", "e", "f">>
UpperDigits == <<"0", "1", "2", "3", "4", "5", "6", "7", "8", "9", "A", "B", "C", "D", "E", "F">>
IsHexDigit(c) == \E i \in 1..16 : HexDigits[i] = c \/ UpperDigits[i] = c
HexVal(c) == (CHOOSE i \in 1..16 : HexDigits[i] = c \/ UpperDigits[i] = c) - 1
\* str.lower() of a text of hex digits and other characters without case
lower(h) ==
    [i \in 1..Len(h) |->
        IF \E k \in 11..16 : UpperDigits[k] = h[i]
        THEN HexDigits[CHOOSE k \in 11..16 : UpperDigits[k] = h[i]]
        ELSE h[i]]

\* f"{b:02x}", as a pair of characters
Hex2(b) == <<HexDigits[(b \div 16) + 1], HexDigits[(b % 16) + 1]>>

RECURSIVE Flatten(_)
Flatten(ss) == IF ss = <<>> THEN <<>> ELSE Head(ss) \o Flatten(Tail(ss))

\* bytes.hex(): two lowercase hex characters a byte
BytesHex(b) == Flatten([i \in 1..Len(b) |-> Hex2(b[i])])

\* bytes.fromhex(hexstr.strip()): whitespace (the character " ") before, after and
\* between the bytes is skipped, each byte is two hex digits of either case; strip()
\* removes only whitespace that fromhex skips as well
RECURSIVE ParseHex(_)
ParseHex(h) ==
    IF h = <<>> THEN [ok |-> TRUE, bytes |-> <<>>]
    ELSE IF h[1] = " " THEN ParseHex(Tail(h))
    ELSE IF Len(h) >= 2 /\ IsHexDigit(h[1]) /\ IsHexDigit(h[2])
    THEN LET rest == ParseHex(Tail(Tail(h)))
         IN [ok |-> rest.ok, bytes |-> <<16 * HexVal(h[1]) + HexVal(h[2])>> \o rest.bytes]
    ELSE [ok |-> FALSE, bytes |-> <<>>]
\* bytes.fromhex does not raise
ValidHex(h) == ParseHex(h).ok
FromHex(h) == ParseHex(h).bytes

\* b[i], with Python's 0-based offsets
B(b, i) == b[i + 1]
\* b[lo:hi]
Slice(b, lo, hi) == [i \in 1..(hi - lo) |-> b[lo + i]]

RECURSIVE BigEndian(_)
BigEndian(bs) == IF bs = <<>> THEN 0 ELSE 256 * BigEndian(SubSeq(bs, 1, Len(bs) - 1)) + bs[Len(bs)]

RECURSIVE Pow2(_)
Pow2(n) == IF n = 0 THEN 1 ELSE 2 * Pow2(n - 1)

\* int.from_bytes(bs, "big", signed=...)
\* a mutant: signed=True is ignored
int_from_bytes_Unsigned(bs, signed) ==
    IF Len(bs) <= 3 THEN BigEndian(bs)
    ELSE [hi |-> BigEndian(SubSeq(bs, 1, Len(bs) - 2)), lo |-> BigEndian(SubSeq(bs, Len(bs) - 1, Len(bs)))]

\* A value of up to three bytes is a number.  A wider value is kept as the pair
\* [hi, lo] that stands for hi * 65536 + lo, lo being the value of the last two
\* bytes and hi that of the bytes before them, so that all 32 bits of a timestamp
\* are kept.
int_from_bytes(bs, signed) ==
    LET n == IF Len(bs) <= 3 THEN Len(bs) ELSE Len(bs) - 2
        u == BigEndian(SubSeq(bs, 1, n))
        v == IF signed /\ n > 0 /\ u >= Pow2(8 * n - 1) THEN u - Pow2(8 * n) ELSE u
    IN IF Len(bs) <= 3 THEN v
       ELSE [hi |-> v, lo |-> BigEndian(SubSeq(bs, n + 1, Len(bs)))]

\* x & mask for a one-bit mask 2^k
BitSet(x, k) == (x \div Pow2(k)) % 2 = 1

\* ":".join(...): the parts with the separator between them, as one text
RECURSIVE Join(_, _)
Join(sep, parts) ==
    IF parts = <<>> THEN ""
    ELSE IF Len(parts) = 1 THEN parts[1]
    ELSE parts[1] \o sep \o Join(sep, Tail(parts))

\* the MAC text is never taken apart again: it is kept as one string
_fmt_mac(bs) == Join(":", [i \in 1..Len(bs) |-> Hex2(bs[i])[1] \o Hex2(bs[i])[2]])

\* a mutant: the masks of sos and press_once are exchanged
_event_flags_byte_SwappedMasks(event_status) ==
    LET eb == event_status % 256
    IN [start_moving |-> BitSet(eb, 0),
        end_movement |-> BitSet(eb, 1),
        motionless |-> BitSet(eb, 2),
        shock |-> BitSet(eb, 3),
        temp_event |-> BitSet(eb, 4),
        light_event |-> BitSet(eb, 5),
        sos |-> BitSet(eb, 7),
        press_once |-> BitSet(eb, 6)]

_event_flags_byte(event_status) ==
    LET eb == event_status % 256
    IN [start_moving |-> BitSet(eb, 0),
        end_movement |-> BitSet(eb, 1),
        motionless |-> BitSet(eb, 2),
        shock |-> BitSet(eb, 3),
        temp_event |-> BitSet(eb, 4),
        light_event |-> BitSet(eb, 5),
        sos |-> BitSet(eb, 6),
        press_once |-> BitSet(eb, 7)]

\* The ISO-8601 text of epoch_sec at the fixed offset +09:00, kept as the local
\* wall-clock second count and the offset it is rendered with.
_to_iso_jst(epoch_sec) ==
    [local |-> [hi |-> epoch_sec.hi + (epoch_sec.lo + 9 * 3600) \div 65536,
                lo |-> (epoch_sec.lo + 9 * 3600) % 65536],
     offset |-> "+09:00"]

\* a mutant: a frame must be longer than 35 bytes to be decoded in full
FullFrameLen_Longer == 35 + 1
\* minimum length of a frame with id 0x08 that is decoded in full
FullFrameLen == 35
\* a mutant: another frame id is taken for the supported one
FrameId08_Wrong == 9 - 8
\* the supported frame id
FrameId08 == 8

decode_t1000_hex(hexstr) ==
    IF ~ValidHex(hexstr) THEN [error |-> "invalid_hex", hex |-> hexstr]
    ELSE LET b == FromHex(hexstr) IN
    IF b = <<>> THEN [error |-> "empty", hex |-> hexstr]
    ELSE LET fid == B(b, 0) IN
    IF fid = FrameId08 /\ Len(b) >= FullFrameLen
    THEN LET event_status == B(b, 1) * 65536 + B(b, 2) * 256 + B(b, 3)
             flags == _event_flags_byte(event_status)
             utc == int_from_bytes(Slice(b, 5, 9), FALSE)
         IN [frame_id |-> fid, length |-> Len(b), hex |-> lower(hexstr),
             event_status |-> event_status,
             motion_segment |-> B(b, 4),
             utc |-> utc,
             utc_iso |-> _to_iso_jst(utc),
             beacons |-> <<[mac |-> _fmt_mac(Slice(b, 9, 15)), rssi |-> int_from_bytes(Slice(b, 15, 16), TRUE)],
                           [mac |-> _fmt_mac(Slice(b, 16, 22)), rssi |-> int_from_bytes(Slice(b, 22, 23), TRUE)],
                           [mac |-> _fmt_mac(Slice(b, 23, 29)), rssi |-> int_from_bytes(Slice(b, 29, 30), TRUE)]>>,
             temperature_c |-> [tenths |-> int_from_bytes(Slice(b, 30, 32), TRUE)],
             light_pct |-> int_from_bytes(Slice(b, 32, 34), FALSE),
             battery_pct |-> B(b, 34),
             events |-> flags,
             motion_detect |-> (flags.start_moving \/ flags.shock)]
    ELSE [frame_id |-> fid, length |-> Len(b), hex |-> lower(hexstr)]

(* ------------------------------------------------------------------ *)
(* Envelope, attributes and outer payload                              *)
(*                                                                     *)
(* An envelope (the handler's `data`) is [isdict, fields]; a value of  *)
(* its "message" key has the same shape.  A message dict holds any of  *)
(* the keys attributes, data, messageId, message_id, publishTime,      *)
(* publish_time.  The value of "data" is a base64 text                 *)
(* [b64, json, doc]: whether it decodes as base64/UTF-8, whether the   *)
(* decoded text parses as JSON, and the JSON document                  *)
(* [type, order, fields] it holds (order: the keys in document order). *)
(* The inner "data" of an uplink is [text, bytes]: text is "empty"     *)
(* (the empty string), "bad" (not base64) or "b64" (base64 of bytes).  *)
(* ------------------------------------------------------------------ *)
GetStr(d, k) == IF Has(d, k) THEN Some(d[k]) ELSE None

_get_msg(envelope) ==
    IF envelope.isdict /\ Has(envelope.fields, "message") /\ envelope.fields.message.isdict
    THEN envelope.fields.message.fields
    ELSE IF envelope.isdict THEN envelope.fields ELSE EmptyDict

\* the JSON object {}
EmptyObject == [type |-> "object", order |-> <<>>, fields |-> EmptyDict]

\* msg.get("attributes", {}) or {}
msg_attributes(msg) == IF Has(msg, "attributes") THEN msg.attributes ELSE EmptyDict

\* msg.get("messageId") or msg.get("message_id") or getattr(context, "event_id", None)
msg_message_id(msg, context) ==
    Or(Or(GetStr(msg, "messageId"), GetStr(msg, "message_id")), context.event_id)

\* msg.get("publishTime") or msg.get("publish_time") or getattr(context, "timestamp", None)
msg_publish_time(msg, context) ==
    Or(Or(GetStr(msg, "publishTime"), GetStr(msg, "publish_time")), context.timestamp)

\* base64.b64decode(data_b64).decode("utf-8"), json.loads: a failure of either is
\* caught and leaves uplink = {}
outer_uplink(msg) ==
    IF ~Has(msg, "data") THEN EmptyObject
    ELSE IF msg.data.b64 /\ msg.data.json THEN msg.data.doc
    ELSE EmptyObject

\* uplink.get(...) raises AttributeError when json.loads returned no dict
uplink_get_raises(uplink) == uplink.type # "object"

\* (uplink.get("deviceInfo") or {}).get("devEui")
uplink_devEui(uplink) ==
    IF Has(uplink.fields, "deviceInfo") THEN GetStr(uplink.fields.deviceInfo, "devEui") ELSE None

Unknown == <<"u", "n", "k", "n", "o", "w", "n">>

dev_eui_of(uplink, attrs) ==
    Or(Or(Or(uplink_devEui(uplink), GetStr(attrs, "devEui")), GetStr(attrs, "dev_eui")), Some(Unknown)).val

(* json.dumps(uplink, sort_keys=True), as a sequence of tokens *)
JsonStr(s) == <<"\"">> \o s \o <<"\"">>

\* the text of an inner base64 string; distinct byte strings give distinct texts
InnerText(inner) ==
    IF inner.text = "b64" THEN <<"b64:">> \o BytesHex(inner.bytes)
    ELSE IF inner.text = "bad" THEN <<"!">> ELSE <<>>

JsonValue(fields, k) ==
    IF k = "data" THEN JsonStr(InnerText(fields[k]))
    ELSE IF k = "deviceInfo"
    THEN <<"{">> \o (IF Has(fields[k], "devEui") THEN <<"\"devEui\": ">> \o JsonStr(fields[k].devEui) ELSE <<>>) \o <<"}">>
    ELSE JsonStr(fields[k])

\* the keys an uplink of the model may hold, in ascending order
KeysSorted == <<"data", "deduplicationId", "deviceInfo">>
InSet(S, k) == k \in S
SortedKeys(S) == SelectSeq(KeysSorted, LAMBDA k : InSet(S, k))

json_dumps(doc, sort_keys) ==
    LET keys == IF sort_keys THEN SortedKeys(DOMAIN doc.fields) ELSE doc.order
    IN <<"{">>
       \o Flatten([i \in 1..Len(keys) |->
                     (IF i > 1 THEN <<", ">> ELSE <<>>)
                     \o <<"\"" \o keys[i] \o "\": ">>
                     \o JsonValue(doc.fields, keys[i])])
       \o <<"}">>

\* hashlib.sha256(text).hexdigest()[:16]: SHA-256 is taken collision-free, so the
\* digest is a one-to-one rendering of the hashed text in characters outside _ILLEGAL
sha256_hex16(text) == [i \in 1..Len(text) |-> "h" \o text[i]]

\* lines 187-194
dedup_of(uplink, attrs, message_id, publish_time) ==
    Or(Or(Or(GetStr(uplink.fields, "deduplicationId"), GetStr(attrs, "deduplicationId")),
          message_id),
       Some(sha256_hex16(json_dumps(uplink, TRUE) \o Str(publish_time)))).val

(* ------------------------------------------------------------------ *)
(* Inner payload and the values written                                *)
(* ------------------------------------------------------------------ *)
\* uplink.get("data"), truthy
inner_present(uplink) == Has(uplink.fields, "data") /\ uplink.fields.data.text # "empty"

\* base64.b64decode(inner_b64) raises (caught at line 313)
inner_b64_raises(uplink) == uplink.fields.data.text = "bad"

\* decode_t1000_hex(base64.b64decode(inner_b64).hex())
inner_decoded(uplink) == decode_t1000_hex(BytesHex(uplink.fields.data.bytes))

\* decoded.get("frame_id") == 0x08 and decoded.get("beacons")
StateUpdateGuard(decoded) ==
    /\ Has(decoded, "frame_id") /\ decoded.frame_id = FrameId08
    /\ Has(decoded, "beacons") /\ decoded.beacons # <<>>

\* _now_iso(): the wall clock, read as the time `now`, rendered in UTC
_now_iso(now) == [local |-> [hi |-> 0, lo |-> now], offset |-> "+00:00"]

\* a mutant: the time of ingestion instead of the reading's own time
ts_iso_of_IngestionTime(decoded, now) == _now_iso(now)

\* decoded.get("utc_iso") or _now_iso()
ts_iso_of(decoded, now) == IF Has(decoded, "utc_iso") THEN decoded.utc_iso ELSE _now_iso(now)

\* [{**b, "ts": ts_iso} for b in decoded["beacons"]]
enriched_of(decoded, now) ==
    [i \in 1..Len(decoded.beacons) |->
        [mac |-> decoded.beacons[i].mac, rssi |-> decoded.beacons[i].rssi, ts |-> ts_iso_of(decoded, now)]]

\* {".sv": "timestamp"}: the store puts its own clock there when it applies the write
_server_ts(now) == now

\* the dict passed to db.reference(f"devices/{dev_key}").update
snapshot_payload(decoded, now) ==
    [beacons |-> enriched_of(decoded, now),
     beaconsUpdatedAt |-> ts_iso_of(decoded, now),
     beaconsUpdatedAtServer |-> _server_ts(now)]

\* the dict passed to db.reference(f"devices/{dev_key}/beacon_logs/{dedup_key}").set
log_entry(decoded, now) ==
    [beacons |-> enriched_of(decoded, now),
     battery_pct |-> decoded.battery_pct,
     temperature_c |-> decoded.temperature_c,
     light_pct |-> decoded.light_pct,
     motion_detect |-> decoded.motion_detect,
     events |-> decoded.events,
     savedAt |-> ts_iso_of(decoded, now),
     savedAtServer |-> _server_ts(now)]

\* a mutant: start_moving is looked at before shock
event_name_of_MovingFirst(events) ==
    IF events.start_moving THEN "start_moving"
    ELSE IF events.shock THEN "shock"
    ELSE IF events.end_movement THEN "end_movement"
    ELSE IF events.motionless THEN "motionless"
    ELSE IF events.press_once THEN "press_once"
    ELSE IF events.sos THEN "sos"
    ELSE IF events.temp_event THEN "temp_event"
    ELSE IF events.light_event THEN "light_event"
    ELSE "none"

\* lines 282-291; "none" stands for Python's None
event_name_of(events) ==
    IF events.shock THEN "shock"
    ELSE IF events.start_moving THEN "start_moving"
    ELSE IF events.end_movement THEN "end_movement"
    ELSE IF events.motionless THEN "motionless"
    ELSE IF events.press_once THEN "press_once"
    ELSE IF events.sos THEN "sos"
    ELSE IF events.temp_event THEN "temp_event"
    ELSE IF events.light_event THEN "light_event"
    ELSE "none"

\* a mutant: the shock flag is taken from the motion flag
status_payload_ShockFromMotion(decoded, dedup_key, now) ==
    [motion |-> decoded.motion_detect,
     shock |-> decoded.motion_detect,
     lastEvent |-> event_name_of(decoded.events),
     lastEventRaw |-> decoded.event_status,
     lastEventFrameId |-> "0x08",
     lastEventDedup |-> dedup_key,
     lastEventAt |-> ts_iso_of(decoded, now),
     lastEventAtServer |-> _server_ts(now)]

\* status_payload, lines 293-302
status_payload(decoded, dedup_key, now) ==
    [motion |-> decoded.motion_detect,
     shock |-> decoded.events.shock,
     lastEvent |-> event_name_of(decoded.events),
     lastEventRaw |-> decoded.event_status,
     lastEventFrameId |-> "0x08",
     lastEventDedup |-> dedup_key,
     lastEventAt |-> ts_iso_of(decoded, now),
     lastEventAtServer |-> _server_ts(now)]

(* ------------------------------------------------------------------ *)
(* The store: the tree under devices/, a dict from device key to the   *)
(* device's node; a node holds any of the children beacons,            *)
(* beaconsUpdatedAt, beaconsUpdatedAtServer, beacon_logs (a dict from  *)
(* dedup key to entry) and status.                                     *)
(* ------------------------------------------------------------------ *)
Child(node, k) == IF Has(node, k) THEN node[k] ELSE EmptyDict
DeviceNode(s, dev_key) == Child(s, dev_key)

\* a mutant: children that exist are kept, as a transaction `cur or new` would
Merged_KeepsExisting(old, payload) ==
    [k \in DOMAIN old \cup DOMAIN payload |-> IF k \in DOMAIN old THEN old[k] ELSE payload[k]]

\* the children of a node after update(payload): the payload's keys are overwritten,
\* a key whose value is None ("none") is removed, every other child is kept
Merged(old, payload) ==
    LET gone == {k \in DOMAIN payload : k = "lastEvent" /\ payload[k] = "none"}
    IN [k \in (DOMAIN old \cup DOMAIN payload) \ gone |->
           IF k \in DOMAIN payload THEN payload[k] ELSE old[k]]

\* the tree after the value at devices/{dev_key}/{child} is replaced
WithChild(s, dev_key, child, value) ==
    [d \in DOMAIN s \cup {dev_key} |->
        IF d = dev_key
        THEN [k \in DOMAIN DeviceNode(s, d) \cup {child} |->
                 IF k = child THEN value ELSE DeviceNode(s, d)[k]]
        ELSE s[d]]

\* a mutant: the snapshot is set at devices/ itself, replacing every device
UpdateDevice_AtRoot(s, dev_key, payload) ==
    [d \in {dev_key} |-> Merged(DeviceNode(s, d), payload)]

\* db.reference(f"devices/{dev_key}").update(payload)
UpdateDevice(s, dev_key, payload) ==
    [d \in DOMAIN s \cup {dev_key} |->
        IF d = dev_key THEN Merged(DeviceNode(s, d), payload) ELSE s[d]]

\* a mutant: an entry that exists is kept, as a transaction `cur or entry` would
SetLog_KeepsExisting(s, dev_key, dedup_key, entry) ==
    LET logs == Child(DeviceNode(s, dev_key), "beacon_logs")
    IN WithChild(s, dev_key, "beacon_logs",
                 [k \in DOMAIN logs \cup {dedup_key} |-> IF k \in DOMAIN logs THEN logs[k] ELSE entry])

\* a mutant: the entry is set at beacon_logs itself, replacing the whole log
SetLog_AtLogRoot(s, dev_key, dedup_key, entry) ==
    WithChild(s, dev_key, "beacon_logs", [k \in {dedup_key} |-> entry])

\* db.reference(f"devices/{dev_key}/beacon_logs/{dedup_key}").set(entry)
SetLog(s, dev_key, dedup_key, entry) ==
    LET logs == Child(DeviceNode(s, dev_key), "beacon_logs")
    IN WithChild(s, dev_key, "beacon_logs",
                 [k \in DOMAIN logs \cup {dedup_key} |-> IF k = dedup_key THEN entry ELSE logs[k]])

\* db.reference(f"devices/{dev_key}/status").update(payload)
UpdateStatus(s, dev_key, payload) ==
    WithChild(s, dev_key, "status", Merged(Child(DeviceNode(s, dev_key), "status"), payload))

(* ------------------------------------------------------------------ *)
(* pubsub_to_rtdb after _ensure_firebase: what one invocation derives  *)
(* from its arguments                                                  *)
(* ------------------------------------------------------------------ *)
Derive(data, context) ==
    LET msg == _get_msg(data)
        attrs == msg_attributes(msg)
        uplink == outer_uplink(msg)
        raises == uplink_get_raises(uplink)
        inner == ~raises /\ inner_present(uplink) /\ ~inner_b64_raises(uplink)
    IN [raises |-> raises,
        dev_key |-> IF raises THEN <<>> ELSE _safe_key(dev_eui_of(uplink, attrs)),
        dedup_key |-> IF raises THEN <<>>
                      ELSE _safe_key(dedup_of(uplink, attrs, msg_message_id(msg, context),
                                              msg_publish_time(msg, context))),
        decoded |-> IF inner THEN inner_decoded(uplink) ELSE EmptyDict,
        writes |-> inner /\ StateUpdateGuard(inner_decoded(uplink))]

\* the three store writes of an invocation, in the order of the code
WriteSnapshot(s, d, now) == UpdateDevice(s, d.dev_key, snapshot_payload(d.decoded, now))
\* a mutant: the log entry is stored under the device key instead of the dedup key
WriteLog_UnderDeviceKey(s, d, now) == SetLog(s, d.dev_key, d.dev_key, log_entry(d.decoded, now))
WriteLog(s, d, now) == SetLog(s, d.dev_key, d.dedup_key, log_entry(d.decoded, now))
WriteStatus(s, d, now) == UpdateStatus(s, d.dev_key, status_payload(d.decoded, d.dedup_key, now))

\* a mutant: the status is written first, then the snapshot, then the log entry
AfterWrites_StatusFirst(s, d, now, n) ==
    IF n = 0 THEN s
    ELSE IF n = 1 THEN WriteStatus(s, d, now)
    ELSE IF n = 2 THEN WriteSnapshot(WriteStatus(s, d, now), d, now)
    ELSE WriteLog(WriteSnapshot(WriteStatus(s, d, now), d, now), d, now)

\* the store after the first n writes of an invocation
RECURSIVE AfterWrites(_, _, _, _)
AfterWrites(s, d, now, n) ==
    IF n = 0 THEN s
    ELSE LET before == AfterWrites(s, d, now, n - 1)
         IN IF n = 1 THEN WriteSnapshot(before, d, now)
            ELSE IF n = 2 THEN WriteLog(before, d, now)
            ELSE WriteStatus(before, d, now)

(* ------------------------------------------------------------------ *)
(* Inputs of the model                                                 *)
(* ------------------------------------------------------------------ *)
\* A frame of n bytes laid out as section 6 of the specification: frame id, 24-bit
\* event status, motion segment, 32-bit UTC, three beacons (MAC, RSSI), temperature,
\* light, battery; bytes beyond offset 34 are padding.
Frame(fid, n, ev, utc, temp, batt) ==
    [i \in 1..n |->
        LET o == i - 1
        IN CASE o = 0 -> fid
             [] o = 1 -> ev \div 65536
             [] o = 2 -> (ev \div 256) % 256
             [] o = 3 -> ev % 256
             [] o = 4 -> 2
             [] o \in 5..7 -> 0
             [] o = 8 -> utc
             [] o = 15 -> 200
             [] o = 22 -> 127
             [] o = 29 -> 128
             [] o = 30 -> (temp \div 256) % 256
             [] o = 31 -> temp % 256
             [] o = 32 -> 1
             [] o = 33 -> 44
             [] o = 34 -> batt
             [] OTHER -> 160 + o]

\* shock (low byte 0x08), battery 77, 23.5 degrees
FrameShock == Frame(8, 35, 8, 2, 235, 77)
\* start-moving with a reserved high bit set, an earlier UTC, -5.0 degrees
FrameMove == Frame(8, 35, 65536 + 1, 1, 65536 - 50, 50)
\* no event flag, one byte longer than the minimum
FrameQuiet == Frame(8, 36, 0, 3, 0, 10)
\* frame id 8, one byte too short
FrameShort == Frame(8, 34, 8, 2, 235, 77)
\* another frame id
FrameOther == Frame(1, 35, 8, 2, 235, 77)

QualifyingFrames == {FrameShock, FrameMove, FrameQuiet}
OtherFrames == {FrameShort, FrameOther, <<>>}

DevAA == <<"A", "A">>
DevSlash == <<"a", "/", "b">>
DevDot == <<"a", ".", "b">>
Dedup1 == <<"d", "1">>
Dedup2 == <<"d", "#", "2">>
MsgId1 == <<"m", "1">>
Time1 == <<"t", "1">>
Time2 == <<"t", "2">>

NoContext == [event_id |-> None, timestamp |-> None]

Wrapped(msg) == [isdict |-> TRUE, fields |-> [message |-> [isdict |-> TRUE, fields |-> msg]]]
Bare(msg) == [isdict |-> TRUE, fields |-> msg]
\* an envelope that is no dict (a string, a list, None)
NotADict == [isdict |-> FALSE, fields |-> EmptyDict]

B64Json(doc) == [b64 |-> TRUE, json |-> TRUE, doc |-> doc]
B64NotJson == [b64 |-> TRUE, json |-> FALSE, doc |-> EmptyObject]
NotB64 == [b64 |-> FALSE, json |-> FALSE, doc |-> EmptyObject]
\* a JSON document that is no object (an array, a number, null)
JsonArray == [type |-> "array", order |-> <<>>, fields |-> EmptyDict]

InnerB64(bytes) == [text |-> "b64", bytes |-> bytes]
InnerBad == [text |-> "bad", bytes |-> <<>>]
InnerEmpty == [text |-> "empty", bytes |-> <<>>]

\* the usual uplink: deviceInfo.devEui, deduplicationId and the inner data
Uplink(dev, dedup, inner) ==
    [type |-> "object",
     order |-> <<"deduplicationId", "deviceInfo", "data">>,
     fields |-> [deviceInfo |-> [devEui |-> dev], deduplicationId |-> dedup, data |-> inner]]
\* an uplink without inner data
UplinkNoData(dev, dedup) ==
    [type |-> "object",
     order |-> <<"deviceInfo", "deduplicationId">>,
     fields |-> [deviceInfo |-> [devEui |-> dev], deduplicationId |-> dedup]]
\* an uplink that names neither its device nor a deduplication id
UplinkAnon(order, inner) ==
    [type |-> "object", order |-> order, fields |-> [data |-> inner, deviceInfo |-> EmptyDict]]

Call(data, context) == [data |-> data, context |-> context]

\* uplinks of two devices, under two deduplication ids, carrying a frame
FrameCalls ==
    {Call(Wrapped([data |-> B64Json(Uplink(dev, dd, InnerB64(f))), publishTime |-> Time1]), NoContext) :
        dev \in {DevAA, DevSlash}, dd \in {Dedup1, Dedup2}, f \in {FrameShock, FrameMove}}
    \cup {Call(Wrapped([data |-> B64Json(Uplink(DevDot, Dedup1, InnerB64(FrameQuiet))), publishTime |-> Time1]), NoContext)}
    \cup {Call(Wrapped([data |-> B64Json(Uplink(DevAA, Dedup1, InnerB64(f))), publishTime |-> Time1]), NoContext) :
        f \in OtherFrames}

\* messages whose inner payload is missing, empty or no base64
InnerCalls ==
    {Call(Wrapped([data |-> B64Json(Uplink(DevAA, Dedup1, inner)), publishTime |-> Time1]), NoContext) :
        inner \in {InnerBad, InnerEmpty}}
    \cup {Call(Wrapped([data |-> B64Json(UplinkNoData(DevAA, Dedup1)), publishTime |-> Time1]), NoContext)}

\* messages whose outer payload is missing or does not decode to a JSON object
OuterCalls ==
    {Call(Wrapped([attributes |-> [devEui |-> DevAA], messageId |-> MsgId1]), NoContext)}
    \cup {Call(Wrapped([data |-> od, attributes |-> [dev_eui |-> DevAA], messageId |-> MsgId1]), NoContext) :
            od \in {NotB64, B64NotJson, B64Json(JsonArray)}}

\* other envelope shapes: no dict at all, and the message fields at the top level
\* (device from an attribute, dedup key from the content hash)
ShapeCalls ==
    {Call(NotADict, NoContext),
     Call(Bare([data |-> B64Json(UplinkAnon(<<"data", "deviceInfo">>, InnerB64(FrameShock))),
                attributes |-> [dev_eui |-> DevAA], publish_time |-> Time2]),
          [event_id |-> None, timestamp |-> Some(Time1)])}

(* Messages that differ in where their dedup key comes from *)
Msg2 == <<"m", "/", "2">>
Event1 == <<"e", "1">>

\* an uplink with the given deduplicationId (None: the key is absent), no device
\* name, and the keys in the given document order
UplinkDedup(ud, order) ==
    [type |-> "object",
     order |-> IF ud.some THEN <<"deduplicationId">> \o order ELSE order,
     fields |-> IF ud.some
                THEN [data |-> InnerB64(FrameShock), deviceInfo |-> EmptyDict, deduplicationId |-> ud.val]
                ELSE [data |-> InnerB64(FrameShock), deviceInfo |-> EmptyDict]]

\* the message dict with only the keys that are given
MsgWith(uplink, attrs, ids, times) ==
    [k \in {"data", "attributes"} \cup DOMAIN ids \cup DOMAIN times |->
        IF k = "data" THEN B64Json(uplink)
        ELSE IF k = "attributes" THEN attrs
        ELSE IF k \in DOMAIN ids THEN ids[k] ELSE times[k]]

\* every combination of the three explicit sources of the key
SourceCalls ==
    {Call(Wrapped(MsgWith(UplinkDedup(ud, <<"data", "deviceInfo">>), attrs, ids, [publishTime |-> Time1])), ctx) :
        ud \in {None, Some(<<>>), Some(Dedup1)},
        attrs \in {[dev_eui |-> DevAA], [dev_eui |-> DevAA, deduplicationId |-> Dedup2]},
        ids \in {EmptyDict, [messageId |-> MsgId1], [message_id |-> Msg2], [messageId |-> MsgId1, message_id |-> Msg2]},
        ctx \in {NoContext}}
    \cup {Call(Wrapped(MsgWith(UplinkDedup(None, <<"data", "deviceInfo">>), [dev_eui |-> DevAA], EmptyDict, [publishTime |-> Time1])),
                [event_id |-> Some(Event1), timestamp |-> None])}

\* messages whose key is the content hash: the publish time missing or given in one
\* of its three places, the uplink's keys in either order
HashCalls ==
    {Call(Wrapped(MsgWith(UplinkDedup(None, order), [dev_eui |-> DevAA], EmptyDict, times)), ctx) :
        order \in {<<"data", "deviceInfo">>, <<"deviceInfo", "data">>},
        times \in {EmptyDict, [publishTime |-> Time1], [publishTime |-> Time2], [publish_time |-> Time1]},
        ctx \in {NoContext}}
    \cup {Call(Wrapped(MsgWith(UplinkDedup(None, <<"data", "deviceInfo">>), [dev_eui |-> DevAA], EmptyDict, EmptyDict)),
                [event_id |-> None, timestamp |-> Some(Time1)]),
          Call(Wrapped([publishTime |-> Time1]), NoContext),
          Call(Wrapped([publishTime |-> Time2]), NoContext)}

RECURSIVE SetToSeq(_)
SetToSeq(S) == IF S = {} THEN <<>> ELSE LET x == CHOOSE y \in S : TRUE IN <<x>> \o SetToSeq(S \ {x})

\* the catalogue of invocation arguments; an invocation is named by its position in it
CallSeq == SetToSeq(FrameCalls \cup InnerCalls \cup OuterCalls \cup ShapeCalls \cup SourceCalls \cup HashCalls)
\* the positions of the calls of a part of the catalogue
Positions(part) == {i \in 1..Len(CallSeq) : CallSeq[i] \in part}
\* the calls of the specifications about the store
Calls == Positions(FrameCalls \cup InnerCalls \cup OuterCalls \cup ShapeCalls)
\* the calls of the specification about key derivation
KeyCalls == Positions(SourceCalls \cup HashCalls \cup OuterCalls)

\* Derive for every call of the catalogue
DeriveTable == [i \in 1..Len(CallSeq) |-> Derive(CallSeq[i].data, CallSeq[i].context)]

(* ------------------------------------------------------------------ *)
(* State                                                               *)
(* ------------------------------------------------------------------ *)
VARIABLES
    _APP_READY,     \* the module's global flag
    _apps,          \* firebase_admin._apps is not empty
    DATABASE_URL,   \* os.getenv("DATABASE_URL") is set
    store,          \* the tree under devices/ in the Realtime Database
    clock,          \* the store's server clock
    pc,             \* per worker: the write its invocation issues next, or "idle"
    job,            \* per worker: the index in hist of the invocation it runs
    hist,           \* the invocations so far: call, outcome, writes applied
    arg,            \* the argument a helper function is called with on its own
    res             \* what that call returned, None before the call

vars == <<_APP_READY, _apps, DATABASE_URL, store, clock, pc, job, hist, arg, res>>

\* the workers that may run invocations at the same time
Workers == {"w1", "w2"}

Idle == [w \in Workers |-> "idle"]

Init ==
    /\ _APP_READY = FALSE
    /\ _apps = FALSE
    /\ DATABASE_URL \in BOOLEAN
    /\ store = EmptyDict
    /\ clock = 0
    /\ pc = Idle
    /\ job = [w \in Workers |-> 0]
    /\ hist = <<>>
    /\ arg = <<>>
    /\ res = None

\* the initial state with the environment variable set
InitConc == Init /\ DATABASE_URL

(* ------------------------------------------------------------------ *)
(* _ensure_firebase                                                    *)
(* ------------------------------------------------------------------ *)
\* a mutant: the missing DATABASE_URL is not noticed
_ensure_firebase_NoUrlCheck == TRUE

\* the value returned
_ensure_firebase ==
    IF _APP_READY /\ _apps THEN TRUE
    ELSE IF ~DATABASE_URL THEN FALSE
    ELSE TRUE

\* a mutant: the flag is assigned to a local name, the global one stays False
EnsureEffect_FlagNotSet ==
    IF (_APP_READY /\ _apps) \/ ~DATABASE_URL
    THEN UNCHANGED <<_APP_READY, _apps>>
    ELSE _APP_READY' = _APP_READY /\ _apps' = TRUE

\* its effect on the flag and on firebase_admin._apps
EnsureEffect ==
    IF (_APP_READY /\ _apps) \/ ~DATABASE_URL
    THEN UNCHANGED <<_APP_READY, _apps>>
    ELSE _APP_READY' = TRUE /\ _apps' = TRUE

\* what pubsub_to_rtdb returns or does instead of returning
Outcome(ensured, d) ==
    IF ~ensured THEN "init_error" ELSE IF d.raises THEN "exception" ELSE "ok"

\* the invocation reaches the state update of lines 255-303
Writes(ensured, d) == ensured /\ ~d.raises /\ d.writes

\* line 19 is reached: os.getenv("DATABASE_URL") is called
Consults == ~(_APP_READY /\ _apps)
\* line 24 is reached: firebase_admin.initialize_app is called
Initializes == Consults /\ DATABASE_URL /\ ~_apps

Record(call, ensured, d, applied) ==
    [call |-> call, ensured |-> ensured, outcome |-> Outcome(ensured, d),
     writes |-> Writes(ensured, d), applied |-> applied,
     consulted |-> Consults, initialized |-> Initializes]

(* ------------------------------------------------------------------ *)
(* Invocations processed one at a time                                 *)
(* ------------------------------------------------------------------ *)
\* pubsub_to_rtdb(data, context) with every store write succeeding
Invoke(call) ==
    /\ Len(hist) < MaxCalls
    /\ pc = Idle
    /\ LET ensured == _ensure_firebase
           d == DeriveTable[call]
           n == IF Writes(ensured, d) THEN 3 ELSE 0
       IN /\ store' = AfterWrites(store, d, clock, n)
          /\ hist' = Append(hist, Record(call, ensured, d, n))
    /\ EnsureEffect
    /\ UNCHANGED <<DATABASE_URL, clock, pc, job, arg, res>>

\* pubsub_to_rtdb(data, context) where the k-th store write raises: the writes
\* before it are applied, the exception is caught at line 313, "ok" is returned
InvokeStoreFails(call, k) ==
    /\ Len(hist) < MaxCalls
    /\ pc = Idle
    /\ LET ensured == _ensure_firebase
           d == DeriveTable[call]
       IN /\ Writes(ensured, d)
          /\ store' = AfterWrites(store, d, clock, k - 1)
          /\ hist' = Append(hist, Record(call, ensured, d, k - 1))
    /\ EnsureEffect
    /\ UNCHANGED <<DATABASE_URL, clock, pc, job, arg, res>>

\* the environment variable is set or removed between invocations
SetEnv(v) ==
    /\ DATABASE_URL # v
    /\ DATABASE_URL' = v
    /\ UNCHANGED <<_APP_READY, _apps, store, clock, pc, job, hist, arg, res>>

\* the store's server clock advances
Tick ==
    /\ clock < MaxClock
    /\ clock' = clock + 1
    /\ UNCHANGED <<_APP_READY, _apps, DATABASE_URL, store, pc, job, hist, arg, res>>

(* ------------------------------------------------------------------ *)
(* Invocations running at the same time, one store write a step        *)
(* ------------------------------------------------------------------ *)
Derived(w) == DeriveTable[hist[job[w]].call]

Begin(w, call) ==
    /\ Len(hist) < MaxConcCalls
    /\ pc[w] = "idle"
    /\ LET ensured == _ensure_firebase
           d == DeriveTable[call]
       IN /\ hist' = Append(hist, Record(call, ensured, d, 0))
          /\ pc' = [pc EXCEPT ![w] = IF Writes(ensured, d) THEN "snapshot" ELSE "idle"]
    /\ job' = [job EXCEPT ![w] = Len(hist) + 1]
    /\ EnsureEffect
    /\ UNCHANGED <<DATABASE_URL, store, clock, arg, res>>

Applied(w) == hist' = [hist EXCEPT ![job[w]].applied = @ + 1]

StepSnapshot(w) ==
    /\ pc[w] = "snapshot"
    /\ store' = WriteSnapshot(store, Derived(w), clock)
    /\ pc' = [pc EXCEPT ![w] = "log"]
    /\ Applied(w)
    /\ UNCHANGED <<_APP_READY, _apps, DATABASE_URL, clock, job, arg, res>>

StepLog(w) ==
    /\ pc[w] = "log"
    /\ store' = WriteLog(store, Derived(w), clock)
    /\ pc' = [pc EXCEPT ![w] = "status"]
    /\ Applied(w)
    /\ UNCHANGED <<_APP_READY, _apps, DATABASE_URL, clock, job, arg, res>>

StepStatus(w) ==
    /\ pc[w] = "status"
    /\ store' = WriteStatus(store, Derived(w), clock)
    /\ pc' = [pc EXCEPT ![w] = "idle"]
    /\ Applied(w)
    /\ UNCHANGED <<_APP_READY, _apps, DATABASE_URL, clock, job, arg, res>>

\* the write a worker is about to issue raises; line 313 catches it and the
\* invocation returns
StepRaises(w) ==
    /\ pc[w] # "idle"
    /\ pc' = [pc EXCEPT ![w] = "idle"]
    /\ UNCHANGED <<_APP_READY, _apps, DATABASE_URL, store, clock, job, hist, arg, res>>

(* ------------------------------------------------------------------ *)
(* Specifications                                                      *)
(* ------------------------------------------------------------------ *)
\* invocations one at a time, the store accepting every write
Next ==
    \/ \E c \in Calls : Invoke(c)
    \/ Tick

Spec == Init /\ [][Next]_vars

\* invocations one at a time, store writes may fail
NextFault ==
    \/ \E c \in Calls : Len(hist) < MaxFaultCalls /\ Invoke(c)
    \/ \E c \in Calls, k \in 1..3 : Len(hist) < MaxFaultCalls /\ InvokeStoreFails(c, k)
    \/ Tick

SpecFault == Init /\ [][NextFault]_vars

\* invocations one at a time while the environment variable comes and goes
NextEnv ==
    \/ \E c \in Calls : Invoke(c)
    \/ \E v \in BOOLEAN : SetEnv(v)

SpecEnv == Init /\ [][NextEnv]_vars

\* invocations one at a time, of messages that differ in the sources of their keys
NextKey ==
    \/ \E c \in KeyCalls : Invoke(c)

SpecKey == InitConc /\ [][NextKey]_vars

\* invocations of several workers interleaved write by write
NextConc ==
    \/ \E w \in Workers, c \in Calls : Begin(w, c)
    \/ \E w \in Workers : StepSnapshot(w)
    \/ \E w \in Workers : StepLog(w)
    \/ \E w \in Workers : StepStatus(w)

SpecConc == InitConc /\ [][NextConc]_vars

\* the same, and any write may fail
NextConcFault ==
    \/ \E w \in Workers, c \in Calls : Begin(w, c)
    \/ \E w \in Workers : StepSnapshot(w)
    \/ \E w \in Workers : StepLog(w)
    \/ \E w \in Workers : StepStatus(w)
    \/ \E w \in Workers : StepRaises(w)

SpecConcFault == InitConc /\ [][NextConcFault]_vars

(* ------------------------------------------------------------------ *)
(* The helper functions called on their own                            *)
(* ------------------------------------------------------------------ *)
\* the handler's state, no invocation having run
Quiet ==
    /\ _APP_READY = FALSE
    /\ _apps = FALSE
    /\ DATABASE_URL = TRUE
    /\ store = EmptyDict
    /\ clock = 0
    /\ pc = Idle
    /\ job = [w \in Workers |-> 0]
    /\ hist = <<>>
\* a helper function touches none of it
Still == UNCHANGED <<_APP_READY, _apps, DATABASE_URL, store, clock, pc, job, hist>>

\* the characters identifiers are made of: the six reserved ones and two others
IdChars == {".", "#", "$", "/", "[", "]", "a", "_"}
\* the identifier of the specification's example
IdExample == <<"a", "/", "b", ".", "c">>
\* the identifiers _safe_key is called with
Identifiers == UNION {[1..n -> IdChars] : n \in 0..MaxIdLen} \cup {IdExample}

InitSafeKey == Quiet /\ arg \in Identifiers /\ res = None

\* res = _safe_key(arg)
Call_safe_key ==
    /\ ~res.some
    /\ res' = Some(_safe_key(arg))
    /\ UNCHANGED arg
    /\ Still

NextSafeKey == Call_safe_key

SpecSafeKey == InitSafeKey /\ [][NextSafeKey]_vars

\* A frame of n bytes with every field of the layout given: frame id, 24-bit event
\* status, 32-bit UTC as two 16-bit halves, the RSSI byte of the first beacon (the
\* second and third beacons get its complement and its shift by 128), 16-bit raw
\* temperature, 16-bit light, battery.
FrameOf(fid, n, ev, utc_hi, utc_lo, rssi, temp, light, batt) ==
    [i \in 1..n |->
        LET o == i - 1
        IN CASE o = 0 -> fid
             [] o = 1 -> ev \div 65536
             [] o = 2 -> (ev \div 256) % 256
             [] o = 3 -> ev % 256
             [] o = 4 -> 2
             [] o = 5 -> utc_hi \div 256
             [] o = 6 -> utc_hi % 256
             [] o = 7 -> utc_lo \div 256
             [] o = 8 -> utc_lo % 256
             [] o = 15 -> rssi
             [] o = 22 -> 255 - rssi
             [] o = 29 -> (rssi + 128) % 256
             [] o = 30 -> temp \div 256
             [] o = 31 -> temp % 256
             [] o = 32 -> light \div 256
             [] o = 33 -> light % 256
             [] o = 34 -> batt
             [] OTHER -> 160 + o]

\* an argument of the decoder: the hex text, and the bytes it was rendered from
\* (kind "bytes") or why it stands for none (kind "empty" or "invalid")
HexOf(bytes) == [hex |-> BytesHex(bytes), kind |-> "bytes", bytes |-> bytes]
NoBytes(hex, kind) == [hex |-> hex, kind |-> kind, bytes |-> <<>>]

\* frames of every length around the minimum and of several frame ids
ShapeInputs ==
    {HexOf(FrameOf(fid, n, 8, 0, 2, 200, 235, 300, 77)) :
        fid \in {0, 1, 8, 9, 255}, n \in {1, 2, 34} \cup (35..(35 + MaxPad))}
\* texts bytes.fromhex rejects, texts without a byte, and spellings it accepts
TextInputs ==
    {NoBytes(<<>>, "empty"), NoBytes(<<" ">>, "empty"),
     NoBytes(<<"0">>, "invalid"), NoBytes(<<"z", "z">>, "invalid"),
     NoBytes(<<"0", "8", "0">>, "invalid"), NoBytes(<<"0", " ", "8">>, "invalid"),
     NoBytes(<<"0", "x", "0", "8">>, "invalid"),
     [hex |-> <<"0", "A">>, kind |-> "bytes", bytes |-> <<10>>],
     [hex |-> <<" ", "0", "8", " ", "f", "F", " ">>, kind |-> "bytes", bytes |-> <<8, 255>>]}
\* every low event byte, with the bits 8 to 23 clear, set in part and all set
FlagInputs ==
    {HexOf(FrameOf(8, 35, lo + 256 * hi, 0, 2, 200, 235, 300, 77)) :
        lo \in 0..255, hi \in {0, 1, 65535}}
\* every RSSI byte
RssiInputs == {HexOf(FrameOf(8, 35, 8, 0, 2, v, 235, 300, 77)) : v \in 0..255}
\* the extremes of every field together
WidthInputs ==
    {HexOf(FrameOf(8, 35, ev, utc_hi, utc_lo, 128, temp, light, batt)) :
        ev \in {0, 66051, 16777215},
        utc_hi \in {0, 258, 32768, 65535}, utc_lo \in {0, 772, 65535},
        temp \in {0, 235, 32767, 32768, 65486, 65535},
        light \in {0, 300, 65535}, batt \in {0, 255}}

DecodeInputs == ShapeInputs \cup TextInputs \cup FlagInputs \cup RssiInputs \cup WidthInputs

InitDecode == Quiet /\ arg \in DecodeInputs /\ res = None

\* res = decode_t1000_hex(arg.hex)
Call_decode_t1000_hex ==
    /\ ~res.some
    /\ res' = Some(decode_t1000_hex(arg.hex))
    /\ UNCHANGED arg
    /\ Still

NextDecode == Call_decode_t1000_hex

SpecDecode == InitDecode /\ [][NextDecode]_vars

\* the eight flags of decoded["events"] and every combination of them
FlagNames ==
    {"start_moving", "end_movement", "motionless", "shock",
     "temp_event", "light_event", "sos", "press_once"}
FlagSets == [FlagNames -> BOOLEAN]

InitEventName == Quiet /\ arg \in FlagSets /\ res = None

\* res = event_name, lines 278-291
Call_event_name ==
    /\ ~res.some
    /\ res' = Some(event_name_of(arg))
    /\ UNCHANGED arg
    /\ Still

NextEventName == Call_event_name

SpecEventName == InitEventName /\ [][NextEventName]_vars

(* ------------------------------------------------------------------ *)
(* Properties                                                          *)
(* ------------------------------------------------------------------ *)
\* what invocation i derived from its arguments
D(i) == DeriveTable[hist[i].call]
\* the device keys and the beacon log of a device in a tree
Devices(s) == DOMAIN s
Logs(s, dev) == Child(DeviceNode(s, dev), "beacon_logs")
Status(s, dev) == Child(DeviceNode(s, dev), "status")
\* the invocations so far that reached the state update for device key dev
Qualifying(dev) == {i \in 1..Len(hist) : hist[i].writes /\ D(i).dev_key = dev}
\* the step is an invocation
Invocation == Len(hist') = Len(hist) + 1
Last == hist[Len(hist)]

\* a dict without one key
Without(d, key) == [k \in DOMAIN d \ {key} |-> d[k]]
\* a tree without the timestamps the server substitutes
Strip(s) ==
    [dev \in DOMAIN s |->
        [k \in DOMAIN s[dev] \ {"beaconsUpdatedAtServer"} |->
            IF k = "beacon_logs"
            THEN [e \in DOMAIN s[dev][k] |-> Without(s[dev][k][e], "savedAtServer")]
            ELSE IF k = "status" THEN Without(s[dev][k], "lastEventAtServer")
            ELSE s[dev][k]]]

\* C1: a device's beacon log never holds more entries than there are distinct dedup
\* keys among the qualifying messages ingested for that device key (messages with
\* the same device key and dedup key share one slot), and no step removes an entry.
C1_OneSlotPerDedupKey ==
    /\ [](\A dev \in Devices(store) :
            Cardinality(DOMAIN Logs(store, dev))
                <= Cardinality({D(i).dedup_key : i \in Qualifying(dev)}))
    /\ [][\A dev \in Devices(store) :
            /\ dev \in Devices(store')
            /\ DOMAIN Logs(store, dev) \subseteq DOMAIN Logs(store', dev)]_vars

\* two different messages with the same device key and dedup key were ingested and
\* the device's log holds one entry, while another device key has a log too
C1_Witness ==
    \E i, j \in 1..Len(hist) :
        /\ i < j /\ hist[i].writes /\ hist[j].writes
        /\ hist[i].call # hist[j].call
        /\ D(i).dev_key = D(j).dev_key /\ D(i).dedup_key = D(j).dedup_key
        /\ Cardinality(DOMAIN Logs(store, D(i).dev_key)) = 1
        /\ Cardinality(Devices(store)) = 2

\* C2: ingesting the message that was ingested just before leaves the store as the
\* first ingestion left it, the server's timestamps aside.
C2_RedeliveryIdempotent ==
    [][(Invocation /\ Len(hist) >= 1 /\ hist'[Len(hist')].call = Last.call)
        => Strip(store') = Strip(store)]_vars

\* a qualifying message was ingested twice in a row, the server clock having
\* advanced in between
C2_Witness ==
    /\ Len(hist) >= 2
    /\ Last.call = hist[Len(hist) - 1].call
    /\ Last.writes /\ Last.applied = 3
    /\ Status(store, D(Len(hist)).dev_key).lastEventAtServer = 1
    /\ store # Strip(store)

\* C3 (as claimed): once a beacon-log entry exists, no step changes its contents.
C3_LogEntriesImmutable ==
    [][\A dev \in Devices(store) : \A k \in DOMAIN Logs(store, dev) :
            /\ dev \in Devices(store')
            /\ k \in DOMAIN Logs(store', dev)
            /\ Logs(store', dev)[k] = Logs(store, dev)[k]]_vars

\* C4 (as claimed): no invocation ends in an exception; it returns "ok" whenever
\* the store configuration is available, and "init_error" otherwise.
C4_OnlyOkOrInitError ==
    \A i \in 1..Len(hist) :
        /\ hist[i].outcome \in {"ok", "init_error"}
        /\ hist[i].ensured => hist[i].outcome = "ok"

\* C5: an invocation that finds DATABASE_URL missing while no connection is
\* established returns init_error, whatever the envelope, and leaves the store as
\* it was.
C5_InitErrorShortCircuits ==
    [][(Invocation /\ ~DATABASE_URL /\ ~(_APP_READY /\ _apps))
        => /\ hist'[Len(hist')].outcome = "init_error"
           /\ hist'[Len(hist')].applied = 0
           /\ store' = store]_vars

\* a message that would have been written, and one that would have raised, both
\* ended in init_error
C5_Witness ==
    /\ Len(hist) >= 2
    /\ \A i \in 1..Len(hist) : hist[i].outcome = "init_error"
    /\ \E i \in 1..Len(hist) : D(i).writes
    /\ \E i \in 1..Len(hist) : D(i).raises
    /\ store = EmptyDict

\* the bytes of the inner payload of a call, <<>> when it has none
InnerBytes(call) ==
    LET uplink == outer_uplink(_get_msg(CallSeq[call].data))
    IN IF uplink.type = "object" /\ Has(uplink.fields, "data") /\ uplink.fields.data.text = "b64"
       THEN uplink.fields.data.bytes
       ELSE <<>>
\* the inner payload is a frame with id 8 of at least 35 bytes
FullFrame8(call) == Len(InnerBytes(call)) >= 35 /\ InnerBytes(call)[1] = 8

\* C6: an invocation whose message carries no frame with id 8 of at least 35 bytes
\* applies no write and leaves the whole store unchanged.
C6_WritesOnlyForFullFrame8 ==
    [][(Invocation /\ ~FullFrame8(hist'[Len(hist')].call))
        => /\ store' = store
           /\ hist'[Len(hist')].applied = 0]_vars

\* after a qualifying message, a message with frame id 8 and 34 bytes was ingested
\* with outcome ok
C6_Witness ==
    /\ Len(hist) >= 2
    /\ hist[1].writes
    /\ Last.outcome = "ok" /\ ~Last.writes
    /\ Len(InnerBytes(Last.call)) = 34 /\ InnerBytes(Last.call)[1] = 8
    /\ store # EmptyDict

\* the status record a message leaves, the server's timestamp aside
ExpectedStatus(d) ==
    LET p == Without(status_payload(d.decoded, d.dedup_key, 0), "lastEventAtServer")
    IN IF p.lastEvent = "none" THEN Without(p, "lastEvent") ELSE p
\* the latest invocation that reached the state update for device key dev
LastQualifying(dev) == CHOOSE i \in Qualifying(dev) : \A j \in Qualifying(dev) : j <= i

\* C7: each device's status record and beacon snapshot are those of the most
\* recently processed qualifying message for its device key.
C7_LastWriteWins ==
    \A dev \in {D(i).dev_key : i \in {j \in 1..Len(hist) : hist[j].writes}} :
        LET d == D(LastQualifying(dev))
        IN /\ dev \in Devices(store)
           /\ Without(Status(store, dev), "lastEventAtServer") = ExpectedStatus(d)
           /\ Status(store, dev).lastEventDedup = d.dedup_key
           /\ Has(store[dev], "beacons") /\ Has(store[dev], "beaconsUpdatedAt")
           /\ store[dev].beacons = enriched_of(d.decoded, 0)
           /\ store[dev].beaconsUpdatedAt = d.decoded.utc_iso

\* a device's status comes from the message processed last although an earlier
\* processed message carries a later event time, a non-qualifying message having
\* been processed in between
C7_Witness ==
    /\ Len(hist) = 3
    /\ hist[1].writes /\ ~hist[2].writes /\ hist[2].outcome = "ok" /\ hist[3].writes
    /\ D(1).dev_key = D(3).dev_key
    /\ D(1).decoded.utc.hi = D(3).decoded.utc.hi
    /\ D(1).decoded.utc.lo > D(3).decoded.utc.lo
    /\ Status(store, D(3).dev_key).lastEventAt = D(3).decoded.utc_iso
    /\ Status(store, D(3).dev_key).lastEventRaw # D(1).decoded.event_status

\* the orders in which n invocations can run one at a time
Perms(n) == {f \in [1..n -> 1..n] : \A a, b \in 1..n : f[a] = f[b] => a = b}
\* the store after the first n invocations of an order ran one at a time
RECURSIVE SerialStore(_, _)
SerialStore(order, n) ==
    IF n = 0 THEN EmptyDict
    ELSE LET s == SerialStore(order, n - 1)
             i == order[n]
         IN IF hist[i].writes THEN AfterWrites(s, D(i), 0, 3) ELSE s

\* C8 (as claimed): when every invocation has returned, the store is the one that
\* running the same invocations one at a time in some order produces, and each
\* device's snapshot and status come from the same message.
C8_InterleavingsSerializable ==
    (pc = Idle) =>
        /\ \E order \in Perms(Len(hist)) :
              Strip(store) = Strip(SerialStore(order, Len(hist)))
        /\ \A dev \in Devices(store) : \E i \in Qualifying(dev) :
              /\ store[dev].beacons = enriched_of(D(i).decoded, 0)
              /\ Without(Status(store, dev), "lastEventAtServer") = ExpectedStatus(D(i))

\* C9: after the ingestion of a message with a frame of id 8 and at least 35 bytes,
\* the status at its device key has shock = bit 3 of the low event byte, motion =
\* bit 0 or bit 3, lastEvent = the representative event name (no lastEvent when no
\* flag is set), lastEventRaw = the 24-bit event status, lastEventFrameId = "0x08"
\* and lastEventDedup = the dedup key; the log entry at the dedup key carries the
\* battery, temperature, light, motion-detect and event flags and the three beacons.
C9_StatusAndLogFields ==
    [][(Invocation /\ FullFrame8(hist'[Len(hist')].call) /\ hist'[Len(hist')].outcome = "ok")
        => LET b == InnerBytes(hist'[Len(hist')].call)
               d == DeriveTable[hist'[Len(hist')].call]
               st == Status(store', d.dev_key)
               shock == (b[4] \div 8) % 2 = 1
               motion == (b[4] % 2 = 1) \/ shock
               name == event_name_of(d.decoded.events)
           IN /\ st.shock = shock
              /\ st.motion = motion
              /\ shock => name = "shock"
              /\ IF name = "none" THEN b[4] = 0 /\ ~Has(st, "lastEvent")
                 ELSE Has(st, "lastEvent") /\ st.lastEvent = name
              /\ st.lastEventRaw = b[2] * 65536 + b[3] * 256 + b[4]
              /\ st.lastEventFrameId = "0x08"
              /\ st.lastEventDedup = d.dedup_key
              /\ d.dedup_key \in DOMAIN Logs(store', d.dev_key)
              /\ LET e == Logs(store', d.dev_key)[d.dedup_key]
                 IN /\ e.battery_pct = b[35]
                    /\ e.temperature_c = d.decoded.temperature_c
                    /\ e.light_pct = d.decoded.light_pct
                    /\ e.motion_detect = motion
                    /\ e.events = d.decoded.events
                    /\ Len(e.beacons) = 3
                    /\ \A n \in 1..3 :
                          /\ e.beacons[n].mac = d.decoded.beacons[n].mac
                          /\ e.beacons[n].rssi = d.decoded.beacons[n].rssi]_vars

\* the example of the specification: a shock frame with battery 77 was ingested,
\* after a start-moving frame for the same device
C9_Witness ==
    /\ Len(hist) >= 2
    /\ hist[1].writes /\ InnerBytes(hist[1].call) = FrameMove
    /\ Last.writes /\ InnerBytes(Last.call) = FrameShock
    /\ D(1).dev_key = D(Len(hist)).dev_key
    /\ LET d == D(Len(hist))
           st == Status(store, d.dev_key)
       IN /\ st.shock /\ st.motion /\ st.lastEvent = "shock"
          /\ st.lastEventFrameId = "0x08"
          /\ st.lastEventRaw = 8
          /\ Logs(store, d.dev_key)[d.dedup_key].battery_pct = 77

\* the three explicit sources of the key of invocation i, in their priority
KeySources(i) ==
    LET c == CallSeq[hist[i].call]
        msg == _get_msg(c.data)
        uplink == outer_uplink(msg)
    IN <<IF uplink.type = "object" THEN GetStr(uplink.fields, "deduplicationId") ELSE None,
         GetStr(msg_attributes(msg), "deduplicationId"),
         msg_message_id(msg, c.context)>>
\* invocation i has none of the explicit sources
NoExplicitKey(i) == \A n \in 1..3 : ~Truthy(KeySources(i)[n])
\* the outer JSON and the publish time of invocation i
OuterJson(i) == outer_uplink(_get_msg(CallSeq[hist[i].call].data))
PublishTime(i) == msg_publish_time(_get_msg(CallSeq[hist[i].call].data), CallSeq[hist[i].call].context)

\* the key of invocation i is the first explicit source that is given
KeyByPriority(i) ==
    \A n \in 1..3 :
        (Truthy(KeySources(i)[n]) /\ \A m \in 1..(n - 1) : ~Truthy(KeySources(i)[m]))
            => D(i).dedup_key = _safe_key(KeySources(i)[n].val)
\* content-hash keys agree exactly when the publish times do, the JSON being the same
HashKeysFollowPublishTime(i, j) ==
    (/\ NoExplicitKey(i) /\ NoExplicitKey(j)
     /\ OuterJson(i).type = "object" /\ OuterJson(j).type = "object"
     /\ OuterJson(i).fields = OuterJson(j).fields)
        => ((PublishTime(i) = PublishTime(j)) <=> (D(i).dedup_key = D(j).dedup_key))

\* C10 (as claimed): every message derives a dedup key, by the priority payload
\* identifier, envelope attribute, message identifier, content hash; messages with
\* the same outer JSON and no explicit source derive the same key when their publish
\* times are the same and different keys when they differ.
C10_DedupKeyForEveryMessage ==
    \A i \in 1..Len(hist) :
        /\ hist[i].outcome = "ok"
        /\ D(i).dedup_key # <<>>
        /\ KeyByPriority(i)
        /\ \A j \in 1..Len(hist) : HashKeysFollowPublishTime(i, j)

\* the characters reserved in the store's path syntax
Reserved == {".", "#", "$", "/", "[", "]"}

\* C11: the sanitized key has the length of the identifier, holds no reserved
\* character, has "_" where the identifier has a reserved character and the
\* identifier's character everywhere else, and sanitizing it again changes nothing;
\* a/b.c becomes a_b_c.
C11_SanitizationExact ==
    res.some =>
        /\ Len(res.val) = Len(arg)
        /\ \A i \in 1..Len(arg) :
              /\ res.val[i] \notin Reserved
              /\ arg[i] \in Reserved => res.val[i] = "_"
              /\ arg[i] \notin Reserved => res.val[i] = arg[i]
        /\ _safe_key(res.val) = res.val
        /\ arg = IdExample => res.val = <<"a", "_", "b", "_", "c">>

\* the example was sanitized
C11_Witness ==
    /\ res.some
    /\ arg = IdExample
    /\ res.val = <<"a", "_", "b", "_", "c">>

\* the keys of the three kinds of result
ErrorKeys == {"error", "hex"}
GenericKeys == {"frame_id", "length", "hex"}
FullKeys ==
    GenericKeys \cup {"event_status", "motion_segment", "utc", "utc_iso", "beacons",
                      "temperature_c", "light_pct", "battery_pct", "events", "motion_detect"}
\* the decoder was called with the text of a frame with id 8 of at least 35 bytes
FullInput == arg.kind = "bytes" /\ arg.bytes[1] = 8 /\ Len(arg.bytes) >= 35

\* C12: the decoder returns for every input exactly one of three results: the
\* error-tagged one, without structured fields, iff the input is empty or not valid
\* hex; the full field set with three beacons iff byte 0 is 8 and there are at least
\* 35 bytes; otherwise only frame_id, length and hex.
C12_DecoderClassifies ==
    res.some =>
        /\ DOMAIN res.val \in {ErrorKeys, GenericKeys, FullKeys}
        /\ (DOMAIN res.val = ErrorKeys) <=> (arg.kind \in {"empty", "invalid"})
        /\ (DOMAIN res.val = FullKeys) <=> FullInput
        /\ DOMAIN res.val = FullKeys => Len(res.val.beacons) = 3
        /\ arg.kind = "bytes" =>
              /\ res.val.frame_id = arg.bytes[1]
              /\ res.val.length = Len(arg.bytes)
              /\ res.val.hex = lower(arg.hex)

\* a frame with id 8 and 34 bytes was decoded to the generic fields only
C12_Witness ==
    /\ res.some
    /\ arg.kind = "bytes" /\ arg.bytes[1] = 8 /\ Len(arg.bytes) = 34
    /\ DOMAIN res.val = GenericKeys
    /\ res.val.length = 34

\* the flags in the order of their priority
Priority ==
    <<"shock", "start_moving", "end_movement", "motionless",
      "press_once", "sos", "temp_event", "light_event">>

\* C13: for every combination of the eight flags the representative event name is
\* the first set flag in the order shock, start_moving, end_movement, motionless,
\* press_once, sos, temp_event, light_event, and none when no flag is set.
C13_EventNamePriority ==
    res.some =>
        /\ (\A i \in 1..8 : ~arg[Priority[i]]) <=> (res.val = "none")
        /\ \A i \in 1..8 :
              (arg[Priority[i]] /\ \A j \in 1..(i - 1) : ~arg[Priority[j]])
                  => res.val = Priority[i]

\* shock and start_moving were set together, with later flags, and shock was named
C13_Witness ==
    /\ res.some
    /\ arg.shock /\ arg.start_moving /\ arg.sos /\ ~arg.end_movement
    /\ res.val = "shock"

\* the value of the bit each flag stands for
FlagBits ==
    [start_moving |-> 1, end_movement |-> 2, motionless |-> 4, shock |-> 8,
     temp_event |-> 16, light_event |-> 32, sos |-> 64, press_once |-> 128]

\* C14: in a fully decoded frame each flag is true exactly when its bit of the low
\* byte of event_status (offset 3 of the frame) is set, whatever bits 8 to 23 hold,
\* and motion_detect is start_moving or shock.
C14_FlagsAreLowByteBits ==
    (res.some /\ FullInput) =>
        /\ DOMAIN res.val.events = DOMAIN FlagBits
        /\ \A f \in DOMAIN FlagBits :
              res.val.events[f] = ((arg.bytes[4] \div FlagBits[f]) % 2 = 1)
        /\ res.val.motion_detect = ((arg.bytes[4] % 2 = 1) \/ ((arg.bytes[4] \div 8) % 2 = 1))

\* a frame with all of bits 8 to 23 set and the low byte 0x09 was decoded
C14_Witness ==
    /\ res.some /\ FullInput
    /\ arg.bytes[2] = 255 /\ arg.bytes[3] = 255 /\ arg.bytes[4] = 9
    /\ res.val.events.start_moving /\ res.val.events.shock
    /\ ~res.val.events.sos /\ ~res.val.events.press_once
    /\ res.val.motion_detect

\* C15: in a fully decoded frame event_status is the unsigned 24-bit big-endian
\* value of bytes 1-3, each RSSI byte v is v below 128 and v - 256 from 128 on, the
\* raw temperature is the signed 16-bit value of bytes 30-31, light the unsigned
\* 16-bit value of bytes 32-33 and utc the unsigned 32-bit value of bytes 5-8.
C15_IntegerWidths ==
    (res.some /\ FullInput) =>
        LET b == arg.bytes
            r == res.val
            t == b[31] * 256 + b[32]
        IN /\ r.event_status = b[2] * 65536 + b[3] * 256 + b[4]
           /\ r.event_status \in 0..16777215
           /\ \A n \in 1..3 :
                 r.beacons[n].rssi = IF b[9 + 7 * n] < 128 THEN b[9 + 7 * n] ELSE b[9 + 7 * n] - 256
           /\ r.temperature_c.tenths = IF t < 32768 THEN t ELSE t - 65536
           /\ r.temperature_c.tenths \in (-32768)..32767
           /\ r.light_pct = b[33] * 256 + b[34]
           /\ r.utc = [hi |-> b[6] * 256 + b[7], lo |-> b[8] * 256 + b[9]]
           /\ r.battery_pct = b[35]

\* a frame with RSSI byte 128, temperature bytes 0x8000, light 0xffff and the top
\* bit of utc set was decoded
C15_Witness ==
    /\ res.some /\ FullInput
    /\ arg.bytes[16] = 128 /\ res.val.beacons[1].rssi = -128
    /\ res.val.beacons[2].rssi = 127
    /\ res.val.temperature_c.tenths = -32768
    /\ res.val.light_pct = 65535
    /\ res.val.utc.hi = 65535
    /\ res.val.event_status = 16777215

\* the status children a message leaves when the store's clock reads now
StatusWritten(d, now) ==
    LET p == status_payload(d.decoded, d.dedup_key, now)
    IN IF p.lastEvent = "none" THEN Without(p, "lastEvent") ELSE p

\* C16: an invocation's outcome and writes are those of every earlier invocation
\* of the same message, whatever the store held then, and after an invocation that
\* writes, the snapshot children, the log entry at its dedup key and the status are
\* the values derived from the message alone, while everything else in the store is
\* as it was.
C16_NoStoreReads ==
    [][Invocation =>
        LET new == hist'[Len(hist')]
            d == DeriveTable[new.call]
            dev == d.dev_key
        IN /\ \A i \in 1..Len(hist) :
                 hist[i].call = new.call =>
                     /\ hist[i].outcome = new.outcome
                     /\ hist[i].writes = new.writes
                     /\ hist[i].applied = new.applied
           /\ new.writes =>
                 /\ store'[dev].beacons = snapshot_payload(d.decoded, clock).beacons
                 /\ store'[dev].beaconsUpdatedAt = snapshot_payload(d.decoded, clock).beaconsUpdatedAt
                 /\ store'[dev].beaconsUpdatedAtServer = clock
                 /\ Logs(store', dev)[d.dedup_key] = log_entry(d.decoded, clock)
                 /\ Status(store', dev) = StatusWritten(d, clock)
                 /\ \A other \in Devices(store) \ {dev} : store'[other] = store[other]
                 /\ \A k \in DOMAIN Logs(store, dev) \ {d.dedup_key} :
                       Logs(store', dev)[k] = Logs(store, dev)[k]]_vars

\* a message was ingested into the empty store and again after another message had
\* written the same device's snapshot, status and log slot at a later server time
C16_Witness ==
    /\ Len(hist) = 3
    /\ hist[1].call = hist[3].call /\ hist[2].call # hist[1].call
    /\ hist[1].writes /\ hist[2].writes /\ hist[3].writes
    /\ D(2).dev_key = D(1).dev_key /\ D(2).dedup_key = D(1).dedup_key
    /\ D(2).decoded.event_status # D(1).decoded.event_status
    /\ clock = 1
    /\ Logs(store, D(3).dev_key)[D(3).dedup_key] = log_entry(D(3).decoded, 1)
    /\ Status(store, D(3).dev_key) = StatusWritten(D(3), 1)

\* the invocations so far that reached the state update
Writers == {i \in 1..Len(hist) : hist[i].writes}

\* C17: a write of an invocation for one device key leaves every other device's
\* node (snapshot, log, status) as it was, and when invocations for pairwise
\* different device keys have all returned, however their writes interleaved, the
\* store is the one that running them one at a time in any order produces.
C17_DevicesDoNotInterfere ==
    /\ [][\A w \in Workers :
            (pc[w] # "idle" /\ pc'[w] # pc[w]) =>
                /\ Devices(store') = Devices(store) \cup {Derived(w).dev_key}
                /\ \A other \in Devices(store) \ {Derived(w).dev_key} :
                      store'[other] = store[other]]_vars
    /\ []((/\ pc = Idle
           /\ \A i, j \in Writers : i # j => D(i).dev_key # D(j).dev_key)
            => \A order \in Perms(Len(hist)) : store = SerialStore(order, Len(hist)))

\* two invocations for different device keys are under way, one having issued its
\* snapshot and the other its snapshot and its log entry
C17_Witness ==
    /\ pc["w1"] = "log" /\ pc["w2"] = "status"
    /\ Derived("w1").dev_key # Derived("w2").dev_key
    /\ Devices(store) = {Derived("w1").dev_key, Derived("w2").dev_key}
    /\ DOMAIN Logs(store, Derived("w1").dev_key) = {}
    /\ DOMAIN Logs(store, Derived("w2").dev_key) = {Derived("w2").dedup_key}

\* C18: an invocation issues its writes in the order snapshot, log entry, status,
\* and a write that fails suppresses the later ones and undoes nothing: with no
\* write applied the store is as it was; the log entry is written only after the
\* snapshot and the status only after both; after a failed log write the snapshot
\* is the message's while log and status are as before; the outcome is "ok".
C18_WriteOrderAndSuppression ==
    [][(Invocation /\ hist'[Len(hist')].writes) =>
        LET new == hist'[Len(hist')]
            d == DeriveTable[new.call]
            dev == d.dev_key
        IN /\ new.outcome = "ok"
           /\ new.applied \in 0..3
           /\ new.applied = 0 => store' = store
           /\ new.applied >= 1 =>
                 /\ dev \in Devices(store') /\ Has(store'[dev], "beacons")
                 /\ store'[dev].beacons = snapshot_payload(d.decoded, clock).beacons
                 /\ store'[dev].beaconsUpdatedAtServer = clock
           /\ IF new.applied >= 2
              THEN /\ d.dedup_key \in DOMAIN Logs(store', dev)
                   /\ Logs(store', dev)[d.dedup_key] = log_entry(d.decoded, clock)
              ELSE Logs(store', dev) = Logs(store, dev)
           /\ IF new.applied = 3
              THEN Status(store', dev) = StatusWritten(d, clock)
              ELSE Status(store', dev) = Status(store, dev)]_vars

\* after a complete invocation for a device, the log write of another message for
\* it failed: the snapshot is the new message's, the status still the old one's
C18_Witness ==
    /\ Len(hist) = 2
    /\ hist[1].writes /\ hist[1].applied = 3
    /\ hist[2].writes /\ hist[2].applied = 1 /\ hist[2].outcome = "ok"
    /\ D(1).dev_key = D(2).dev_key /\ D(1).dedup_key # D(2).dedup_key
    /\ D(1).decoded.event_status # D(2).decoded.event_status
    /\ store[D(2).dev_key].beacons = snapshot_payload(D(2).decoded, 0).beacons
    /\ DOMAIN Logs(store, D(2).dev_key) = {D(1).dedup_key}
    /\ Status(store, D(2).dev_key).lastEventDedup = D(1).dedup_key

\* C19: in every state, between the writes of an invocation, after a failed write
\* and under interleaved invocations alike, a device that has a status record has
\* a beacon-log entry at the key its lastEventDedup names.
C19_StatusNamesLogEntry ==
    \A dev \in Devices(store) :
        Has(store[dev], "status") =>
            /\ Has(store[dev].status, "lastEventDedup")
            /\ store[dev].status.lastEventDedup \in DOMAIN Logs(store, dev)

\* one invocation completed and another for the same device, with another dedup
\* key, returned after its log write failed
C19_Witness ==
    /\ pc = Idle
    /\ \E i, j \in 1..Len(hist) :
          /\ hist[i].applied = 3 /\ hist[j].writes /\ hist[j].applied = 1
          /\ D(i).dev_key = D(j).dev_key /\ D(i).dedup_key # D(j).dedup_key
          /\ Status(store, D(i).dev_key).lastEventDedup = D(i).dedup_key
          /\ store[D(i).dev_key].beacons = snapshot_payload(D(j).decoded, 0).beacons
          /\ D(i).decoded.hex # D(j).decoded.hex
          /\ DOMAIN Logs(store, D(i).dev_key) = {D(i).dedup_key}

\* an invocation so far has called initialize_app
Initialized == \E i \in 1..Len(hist) : hist[i].initialized

\* C20: the connection is initialized at most once: an invocation that finds the
\* configuration missing before any initialization returns init_error and leaves
\* the ready flag clear; one that finds it present initializes and sets the flag;
\* after that every invocation proceeds without initializing again and without
\* reading the configuration, present or not.
C20_InitializedAtMostOnce ==
    [][Invocation =>
        LET new == hist'[Len(hist')]
        IN /\ new.initialized => ~Initialized
           /\ Initialized =>
                 /\ new.ensured /\ ~new.consulted /\ ~new.initialized
                 /\ _APP_READY' /\ _apps'
           /\ (~Initialized /\ ~DATABASE_URL) =>
                 /\ new.outcome = "init_error" /\ new.consulted /\ ~new.initialized
                 /\ ~_APP_READY' /\ ~_apps'
           /\ (~Initialized /\ DATABASE_URL) =>
                 /\ new.ensured /\ new.consulted /\ new.initialized
                 /\ _APP_READY' /\ _apps']_vars

\* an invocation without the configuration, one that initialized, and one that
\* proceeded after the configuration had been removed again
C20_Witness ==
    /\ Len(hist) = 3
    /\ hist[1].outcome = "init_error" /\ ~hist[1].initialized
    /\ hist[2].initialized /\ hist[2].outcome = "ok"
    /\ ~DATABASE_URL
    /\ hist[3].ensured /\ ~hist[3].consulted /\ ~hist[3].initialized /\ hist[3].writes
    /\ _APP_READY

====
